---- MODULE Spec2Model ----
(***************************************************************************)
(* cradio: the bulk favorite lookup (src/src/api.rs) and the application   *)
(* state with its event loop (src/src/app.rs, src/src/main.rs,             *)
(* src/src/favorites.rs).                                                  *)
(*                                                                         *)
(* Identifiers (stationuuid strings) are positive integers, ordered as the *)
(* strings are.  A Station is the record of the fields the program reads:  *)
(* stationuuid, name, url, url_resolved; tags, country_code, language and  *)
(* bitrate are only displayed and are left out.                            *)
(***************************************************************************)
EXTENDS Integers, Sequences, FiniteSets, TLC

(***************************************************************************)
(* Bounds of the model and program constants.                              *)
(***************************************************************************)
\* Semaphore::new(8)
PermitCount == 8
\* input lists of 0..MaxIds identifiers are tried with every assignment of outcomes
MaxIds == 3
\* the input that exceeds the limiter: one identifier more than there are permits
ManyIds == PermitCount + 1

\* what one lookup can end in: Ok(Some(station)), Ok(None), Err(_), or a panic
\* of the task (join_next then yields Err(JoinError))
Outcomes == <<"found", "absent", "error", "panic">>

OutcomeSet == {Outcomes[i] : i \in 1..Len(Outcomes)}

ToSet(s) == {s[i] : i \in 1..Len(s)}

(***************************************************************************)
(* The remote directory, as fetch_station_by_uuid sees it: the record      *)
(* served for an identifier carries that identifier.                       *)
(***************************************************************************)
\* Strings are sequences of character codes (ASCII); a URL is a number that
\* stands for the string.  The directory renames stations over time: version 1
\* is the directory as it serves during the session, version 2 the directory as
\* it was when an earlier session wrote the favorites file.
StationName(id, v) ==
    IF v = 1 THEN <<65 + (id % 26)>> ELSE <<97 + ((id + 1) % 26)>>

Station(id, v) ==
    [stationuuid |-> id, name |-> StationName(id, v), url |-> (2 * id) + v,
     url_resolved |-> IF v = 1 THEN 0 ELSE (2 * id) + v + 100]

DirectoryRecord(id) == Station(id, 1)

VARIABLES
    station_uuids,  \* fetch_stations_by_uuids: the argument
    lookup,         \* the outcome the directory has for the i-th identifier
    fn_pc,          \* where fetch_stations_by_uuids is
    server,         \* whether resolve_api_server() has run
    spawned,        \* iterations of the spawn loop done
    task_pc,        \* each task of the JoinSet
    permits,        \* available permits of the semaphore
    stations,       \* the local Vec stations
    failed_uuids,   \* the local Vec failed_uuids
    result,         \* the value returned
    app,            \* run_app: the App
    disk,           \* the favorites file
    loop_pc,        \* where run_app is
    searches,       \* the tasks trigger_load has spawned and that have not sent
    fav_loads,      \* the tasks trigger_load_favorites has spawned, likewise
    channel,        \* the messages sent on tx and not yet received
    last,           \* history: the last event applied to app
    toggled,        \* history: the latest toggles, when nothing came between
    favored,        \* history: the stations as they were when last favorited
    player          \* run_app: the Player

fetchVars == <<station_uuids, lookup, fn_pc, server, spawned, task_pc, permits,
               stations, failed_uuids, result>>

appVars == <<app, disk, loop_pc, searches, fav_loads, channel, last, toggled, favored,
             player>>

vars == <<fetchVars, appVars>>

N == Len(station_uuids)

Tasks == 1..N

InFlight == {t \in Tasks : task_pc[t] = "fetch"}

(***************************************************************************)
(* Inputs: every list of 0..MaxIds distinct identifiers with every         *)
(* assignment of outcomes, and the list of ManyIds identifiers with the    *)
(* outcomes taken in turn.                                                 *)
(***************************************************************************)
FetchInit ==
    /\ \E n \in (0..MaxIds) \cup {ManyIds} :
          /\ station_uuids = [i \in 1..n |-> i]
          /\ IF n <= MaxIds
                THEN lookup \in [1..n -> OutcomeSet]
                ELSE lookup = [i \in 1..n |-> Outcomes[((i - 1) % Len(Outcomes)) + 1]]
          /\ task_pc = [i \in 1..n |-> "unspawned"]
    /\ fn_pc = "entry"
    /\ server = FALSE
    /\ spawned = 0
    /\ permits = 0
    /\ stations = <<>>
    /\ failed_uuids = <<>>
    /\ result = <<>>

(***************************************************************************)
(* fetch_stations_by_uuids                                                 *)
(***************************************************************************)
\* if station_uuids.is_empty() { return (Vec::new(), Vec::new()); }
ReturnEmpty ==
    /\ fn_pc = "entry"
    /\ station_uuids = <<>>
    /\ result' = <<(<<>>), (<<>>)>>
    /\ fn_pc' = "returned"
    /\ UNCHANGED <<station_uuids, lookup, server, spawned, task_pc, permits,
                   stations, failed_uuids>>
    /\ UNCHANGED appVars

\* the early return left out
SetupUnguarded ==
    /\ fn_pc = "entry"
    /\ server' = TRUE
    /\ permits' = PermitCount
    /\ fn_pc' = "spawn"
    /\ UNCHANGED <<station_uuids, lookup, spawned, task_pc, stations,
                   failed_uuids, result>>
    /\ UNCHANGED appVars

\* resolve_api_server(); Semaphore::new(8); JoinSet::new()
Setup ==
    /\ fn_pc = "entry"
    /\ station_uuids # <<>>
    /\ server' = TRUE
    /\ permits' = PermitCount
    /\ fn_pc' = "spawn"
    /\ UNCHANGED <<station_uuids, lookup, spawned, task_pc, stations,
                   failed_uuids, result>>
    /\ UNCHANGED appVars

\* one iteration of: for station_uuid in station_uuids { join_set.spawn(..) };
\* after the last one the two result vectors are created and the join loop begins
SpawnTask ==
    /\ fn_pc = "spawn"
    /\ spawned < N
    /\ spawned' = spawned + 1
    /\ task_pc' = [task_pc EXCEPT ![spawned + 1] = "acquire"]
    /\ fn_pc' = (IF spawned + 1 = N THEN "join" ELSE "spawn")
    /\ UNCHANGED <<station_uuids, lookup, server, permits, stations,
                   failed_uuids, result>>
    /\ UNCHANGED appVars

\* the task starts its lookup without waiting for a permit
AcquireUngated(t) ==
    /\ task_pc[t] = "acquire"
    /\ permits' = permits - 1
    /\ task_pc' = [task_pc EXCEPT ![t] = "fetch"]
    /\ UNCHANGED <<station_uuids, lookup, fn_pc, server, spawned, stations,
                   failed_uuids, result>>
    /\ UNCHANGED appVars

\* semaphore.acquire_owned().await: the task goes on, holding a permit, once one
\* is available.  The semaphore is never closed, so the acquire cannot fail.
Acquire(t) ==
    /\ task_pc[t] = "acquire"
    /\ permits > 0
    /\ permits' = permits - 1
    /\ task_pc' = [task_pc EXCEPT ![t] = "fetch"]
    /\ UNCHANGED <<station_uuids, lookup, fn_pc, server, spawned, stations,
                   failed_uuids, result>>
    /\ UNCHANGED appVars

\* the permit is kept by a task that has finished
CompleteKeepsPermit(t) ==
    /\ task_pc[t] = "fetch"
    /\ task_pc' = [task_pc EXCEPT ![t] = "finished"]
    /\ UNCHANGED <<station_uuids, lookup, fn_pc, server, spawned, permits,
                   stations, failed_uuids, result>>
    /\ UNCHANGED appVars

\* fetch_station_by_uuid(..).await ends (in lookup[t]); the task's block ends
\* and _permit is dropped, also when the task unwinds from a panic
Complete(t) ==
    /\ task_pc[t] = "fetch"
    /\ permits' = permits + 1
    /\ task_pc' = [task_pc EXCEPT ![t] = "finished"]
    /\ UNCHANGED <<station_uuids, lookup, fn_pc, server, spawned, stations,
                   failed_uuids, result>>
    /\ UNCHANGED appVars

\* what join_next() yields for task t
TaskOutput(t) ==
    [uuid |-> station_uuids[t], outcome |-> lookup[t],
     station |-> DirectoryRecord(station_uuids[t])]

\* Ok(None) pushes nothing
JoinArmDropsAbsent(acc, out) ==
    CASE out.outcome = "found" ->
            [acc EXCEPT !.stations = Append(@, out.station)]
      [] out.outcome = "error" ->
            [acc EXCEPT !.failed = Append(@, out.uuid)]
      [] OTHER -> acc

\* Err(_) of the lookup pushes nothing
JoinArmDropsError(acc, out) ==
    CASE out.outcome = "found" ->
            [acc EXCEPT !.stations = Append(@, out.station)]
      [] out.outcome = "absent" ->
            [acc EXCEPT !.failed = Append(@, out.uuid)]
      [] OTHER -> acc

\* the station found replaces the vector instead of being pushed
JoinArmKeepsLatest(acc, out) ==
    CASE out.outcome = "found" ->
            [acc EXCEPT !.stations = <<out.station>>]
      [] out.outcome \in {"absent", "error"} ->
            [acc EXCEPT !.failed = Append(@, out.uuid)]
      [] OTHER -> acc

\* the match of the join loop on one result, acc = (stations, failed_uuids)
JoinArm(acc, out) ==
    CASE out.outcome = "found" ->
            [acc EXCEPT !.stations = Append(@, out.station)]
      [] out.outcome = "absent" ->
            [acc EXCEPT !.failed = Append(@, out.uuid)]
      [] out.outcome = "error" ->
            [acc EXCEPT !.failed = Append(@, out.uuid)]
      [] OTHER -> acc

\* while let Some(result) = join_set.join_next().await { match result {..} }
Join(t) ==
    /\ fn_pc = "join"
    /\ task_pc[t] = "finished"
    /\ LET acc == JoinArm([stations |-> stations, failed |-> failed_uuids],
                          TaskOutput(t))
       IN  /\ stations' = acc.stations
           /\ failed_uuids' = acc.failed
    /\ task_pc' = [task_pc EXCEPT ![t] = "joined"]
    /\ UNCHANGED <<station_uuids, lookup, fn_pc, server, spawned, permits, result>>
    /\ UNCHANGED appVars

\* the function returns as soon as a joined task has failed
ReturnOnFailure ==
    /\ fn_pc = "join"
    /\ \/ \A t \in Tasks : task_pc[t] = "joined"
       \/ \E t \in Tasks : task_pc[t] = "joined" /\ lookup[t] = "error"
    /\ result' = <<stations, failed_uuids>>
    /\ fn_pc' = "returned"
    /\ UNCHANGED <<station_uuids, lookup, server, spawned, task_pc, permits,
                   stations, failed_uuids>>
    /\ UNCHANGED appVars

\* join_next() yields None, the set is empty: (stations, failed_uuids)
Return ==
    /\ fn_pc = "join"
    /\ \A t \in Tasks : task_pc[t] = "joined"
    /\ result' = <<stations, failed_uuids>>
    /\ fn_pc' = "returned"
    /\ UNCHANGED <<station_uuids, lookup, server, spawned, task_pc, permits,
                   stations, failed_uuids>>
    /\ UNCHANGED appVars

FetchNext ==
    \/ ReturnEmpty
    \/ Setup
    \/ SpawnTask
    \/ \E t \in Tasks : Acquire(t)
    \/ \E t \in Tasks : Complete(t)
    \/ \E t \in Tasks : Join(t)
    \/ Return


(***************************************************************************)
(* Strings, options, favorites persistence (src/src/favorites.rs)          *)
(***************************************************************************)
None == <<>>

Some(x) == <<x>>

\* char::to_lowercase on ASCII
LowerChar(c) == IF c >= 65 /\ c <= 90 THEN c + 32 ELSE c

\* str::to_lowercase
ToLowercase(str) == [i \in 1..Len(str) |-> LowerChar(str[i])]

RECURSIVE StrLess(_, _)
\* a < b for strings: Ord of str, bytewise lexicographic
StrLess(a, b) ==
    IF b = <<>> THEN FALSE
    ELSE IF a = <<>> THEN TRUE
    ELSE IF Head(a) # Head(b) THEN Head(a) < Head(b)
    ELSE StrLess(Tail(a), Tail(b))

\* the comparator of deduped.sort_by: lower-cased name, then stationuuid
EntryLess(a, b) ==
    LET la == ToLowercase(a.name)
        lb == ToLowercase(b.name)
    IN  IF la # lb THEN StrLess(la, lb) ELSE a.stationuuid < b.stationuuid

RECURSIVE InsertEntry(_, _)
\* e put into the sorted s after the entries that are not greater (a stable sort)
InsertEntry(s, e) ==
    IF s = <<>> THEN <<e>>
    ELSE IF EntryLess(e, Head(s)) THEN <<e>> \o s
    ELSE <<Head(s)>> \o InsertEntry(Tail(s), e)

RECURSIVE SortEntries(_)
SortEntries(s) ==
    IF s = <<>> THEN <<>>
    ELSE InsertEntry(SortEntries(SubSeq(s, 1, Len(s) - 1)), s[Len(s)])

\* entry.stationuuid.trim().is_empty(): identifier 0 stands for the blank ones
BlankId(id) == id = 0

\* the entry found keeps its name and url
UpdateFirstKeepsOld(s, e) == s

\* the first entry of s with the identifier of e gets the name and url of e
UpdateFirst(s, e) ==
    LET k == CHOOSE i \in 1..Len(s) :
                 /\ s[i].stationuuid = e.stationuuid
                 /\ \A j \in 1..(i - 1) : s[j].stationuuid # e.stationuuid
    IN  [s EXCEPT ![k] = [@ EXCEPT !.name = e.name, !.url = e.url]]

HasId(s, id) == \E i \in 1..Len(s) : s[i].stationuuid = id

RECURSIVE Dedup(_, _)
\* the loop that builds deduped from the entries
Dedup(entries, deduped) ==
    IF entries = <<>> THEN deduped
    ELSE LET entry == Head(entries)
         IN  IF BlankId(entry.stationuuid) THEN Dedup(Tail(entries), deduped)
             ELSE IF HasId(deduped, entry.stationuuid)
                 THEN Dedup(Tail(entries), UpdateFirst(deduped, entry))
             ELSE Dedup(Tail(entries), Append(deduped, entry))

\* what save_favorites_to_path writes
SavedForm(favorites) == SortEntries(Dedup(favorites, <<>>))

\* a file that does not exist is an error as well
load_favorites_needs_file(file) ==
    IF file.state = "entries"
        THEN [ok |-> TRUE, entries |-> SortEntries(Dedup(file.entries, <<>>)), err |-> None]
    ELSE [ok |-> FALSE, entries |-> <<>>,
          err |-> Some([msg |-> "Failed to read favorites file", n |-> 0])]

\* load_favorites: Ok(entries) or Err(message)
load_favorites(file) ==
    IF file.state = "missing" THEN [ok |-> TRUE, entries |-> <<>>, err |-> None]
    ELSE IF file.state = "malformed"
        THEN [ok |-> FALSE, entries |-> <<>>,
              err |-> Some([msg |-> "Failed to parse favorites JSON", n |-> 0])]
    ELSE [ok |-> TRUE, entries |-> SortEntries(Dedup(file.entries, <<>>)), err |-> None]

\* the file after a successful write
FileOf(file, entries) == [file EXCEPT !.state = "entries", !.entries = entries]

(***************************************************************************)
(* Player (src/src/player.rs)                                              *)
(***************************************************************************)
\* the cvlc process: the stream it plays and the volume it has, given by
\* --volume when it is spawned and by "volume <n>" on its stdin afterwards
Child(url, volume) == [url |-> url, volume |-> volume]

\* Player::new()
PlayerNew == [process |-> None, stdin |-> None, volume |-> 50]

\* VLC volume: 0-256 maps from our 0-100 (u32, integer division)
vlc_volume(p) == (p.volume * 256) \div 100

\* writes "volume <n>\n" to the pipe if there is one; the result is dropped
send_vlc_command(p, volume) ==
    IF p.stdin # None /\ p.process # None
        THEN [p EXCEPT !.process = Some(Child(p.process[1].url, volume))]
        ELSE p

\* kills the process, if any, and closes the pipe
stop(p) ==
    IF p.process # None THEN [p EXCEPT !.process = None, !.stdin = None] ELSE p

\* what Command::spawn can return
SpawnOutcomes == {"Ok", "NotFound", "Other"}

\* Player::play: the Player afterwards
play(p, url, outcome) ==
    LET q == stop(p)
    IN  IF outcome = "Ok"
            THEN [q EXCEPT !.stdin = Some("pipe"),
                           !.process = Some(Child(url, vlc_volume(q)))]
            ELSE [q EXCEPT !.process = None]

\* Player::play: the message returned
play_message(outcome) ==
    IF outcome = "Ok" THEN None
    ELSE IF outcome = "NotFound"
        THEN Some([msg |-> "cvlc not found. Please install VLC", n |-> 0])
    ELSE Some([msg |-> "Failed to start cvlc", n |-> 0])

\* the volume goes up without a limit
volume_up_unlimited(p) ==
    LET q == [p EXCEPT !.volume = (p.volume + 5) % 256]
    IN  send_vlc_command(q, vlc_volume(q))

\* volume: u8, below 100 when 5 is added
volume_up(p) ==
    IF p.volume < 100
        THEN LET q == [p EXCEPT !.volume = IF p.volume + 5 < 100 THEN p.volume + 5 ELSE 100]
             IN  send_vlc_command(q, vlc_volume(q))
        ELSE p

\* saturating_sub(5)
volume_down(p) ==
    IF p.volume > 0
        THEN LET q == [p EXCEPT !.volume = IF p.volume >= 5 THEN p.volume - 5 ELSE 0]
             IN  send_vlc_command(q, vlc_volume(q))
        ELSE p

(***************************************************************************)
(* App (src/src/app.rs)                                                    *)
(***************************************************************************)
\* SearchParams::default(): limit
DefaultLimit == 50

SearchParamsDefault ==
    [name |-> <<>>, tags |-> <<>>, country |-> <<>>, language |-> <<>>,
     limit |-> DefaultLimit, offset |-> 0]

\* App::new()
AppNew ==
    [stations |-> <<>>, favorite_stations |-> <<>>, selected |-> 0,
     scroll_offset |-> 0, mode |-> "Normal", view_mode |-> "AllStations",
     params |-> SearchParamsDefault, page |-> 1, total_pages |-> 1,
     loading |-> FALSE, favorites_loading |-> FALSE, error |-> None,
     favorites_error |-> None, current_station |-> None, volume |-> 50,
     favorite_ids |-> {}, favorites |-> <<>>, draft_name |-> <<>>,
     draft_tags |-> <<>>, draft_country |-> <<>>, draft_language |-> <<>>]

\* favorite_ids is not rebuilt
set_favorites_forgets_ids(a, favorites) ==
    [a EXCEPT !.favorites = favorites]

set_favorites(a, favorites) ==
    [a EXCEPT !.favorite_ids = {favorites[i].stationuuid : i \in 1..Len(favorites)},
              !.favorites = favorites]

\* there is always one more page
set_stations_always_more(a, list) ==
    [a EXCEPT !.stations = list, !.selected = 0, !.scroll_offset = 0,
              !.loading = FALSE, !.error = None,
              !.total_pages = a.page + 1]

\* total_pages only ever grows
set_stations_only_grows(a, list) ==
    [a EXCEPT !.stations = list, !.selected = 0, !.scroll_offset = 0,
              !.loading = FALSE, !.error = None,
              !.total_pages = IF Len(list) = a.params.limit /\ a.page + 1 > @
                                 THEN a.page + 1 ELSE @]

set_stations(a, list) ==
    [a EXCEPT !.stations = list, !.selected = 0, !.scroll_offset = 0,
              !.loading = FALSE, !.error = None,
              !.total_pages = IF Len(list) = a.params.limit
                                 THEN a.page + 1 ELSE a.page]

set_favorite_stations(a, list) ==
    [a EXCEPT !.favorite_stations = list, !.favorites_loading = FALSE,
              !.favorites_error = None, !.error = None, !.selected = 0,
              !.scroll_offset = 0]

set_error(a, err) ==
    [a EXCEPT !.error = Some(err), !.loading = FALSE, !.favorites_loading = FALSE]

set_favorites_error(a, err) ==
    [a EXCEPT !.favorites_error = Some(err), !.error = Some(err),
              !.favorites_loading = FALSE]

current_station_list(a) ==
    IF a.view_mode = "AllStations" THEN a.stations ELSE a.favorite_stations

\* self.current_station_list().get(self.selected)
selected_station(a) ==
    IF a.selected < Len(current_station_list(a))
        THEN Some(current_station_list(a)[a.selected + 1])
        ELSE None

is_favorite(a, stationuuid) == stationuuid \in a.favorite_ids

EntryOf(station) ==
    [stationuuid |-> station.stationuuid, name |-> station.name, url |-> station.url]

\* usize::saturating_sub
SaturatingSub(x, y) == IF x >= y THEN x - y ELSE 0

\* selected is not brought back into the shortened list
AfterToggleNoClamp(a, station, now_favorite) ==
    IF a.view_mode = "Favorites" /\ ~now_favorite
        THEN LET list == SelectSeq(a.favorite_stations,
                                   LAMBDA st : st.stationuuid # station.stationuuid)
             IN  [a EXCEPT !.favorite_stations = list,
                           !.scroll_offset = IF @ > a.selected THEN a.selected ELSE @]
        ELSE a

\* the part of toggle_favorite_for_selected after the favorites are updated:
\* in the Favorites view a station no longer favorite leaves the list
AfterToggle(a, station, now_favorite) ==
    IF a.view_mode = "Favorites" /\ ~now_favorite
        THEN LET list == SelectSeq(a.favorite_stations,
                                   LAMBDA st : st.stationuuid # station.stationuuid)
                 sel == IF a.selected >= Len(list)
                           THEN SaturatingSub(Len(list), 1) ELSE a.selected
             IN  [a EXCEPT !.favorite_stations = list, !.selected = sel,
                           !.scroll_offset = IF @ > sel THEN sel ELSE @]
        ELSE a

\* the removal forgets favorites.retain
toggle_forgets_retain(a) ==
    IF selected_station(a) = None THEN [app |-> a, ret |-> None]
    ELSE LET station == selected_station(a)[1]
             id == station.stationuuid
         IN  IF id \in a.favorite_ids
                 THEN [app |-> AfterToggle([a EXCEPT !.favorite_ids = @ \ {id}],
                                           station, FALSE),
                       ret |-> Some(FALSE)]
                 ELSE [app |-> AfterToggle(
                                  [a EXCEPT !.favorite_ids = @ \cup {id},
                                            !.favorites =
                                                IF HasId(@, id)
                                                    THEN UpdateFirst(@, EntryOf(station))
                                                    ELSE Append(@, EntryOf(station))],
                                  station, TRUE),
                       ret |-> Some(TRUE)]

\* the entry stores url_resolved in place of url
toggle_stores_resolved_url(a) ==
    IF selected_station(a) = None THEN [app |-> a, ret |-> None]
    ELSE LET station == selected_station(a)[1]
             id == station.stationuuid
             entry == [EntryOf(station) EXCEPT !.url = station.url_resolved]
         IN  IF id \in a.favorite_ids
                 THEN [app |-> AfterToggle(
                                  [a EXCEPT !.favorite_ids = @ \ {id},
                                            !.favorites =
                                                SelectSeq(@, LAMBDA fav : fav.stationuuid # id)],
                                  station, FALSE),
                       ret |-> Some(FALSE)]
                 ELSE [app |-> AfterToggle(
                                  [a EXCEPT !.favorite_ids = @ \cup {id},
                                            !.favorites =
                                                IF HasId(@, id)
                                                    THEN UpdateFirst(@, entry)
                                                    ELSE Append(@, entry)],
                                  station, TRUE),
                       ret |-> Some(TRUE)]

\* toggle_favorite_for_selected: the App after the call and the value returned
toggle_favorite_for_selected(a) ==
    IF selected_station(a) = None THEN [app |-> a, ret |-> None]
    ELSE LET station == selected_station(a)[1]
             id == station.stationuuid
         IN  IF id \in a.favorite_ids
                 THEN [app |-> AfterToggle(
                                  [a EXCEPT !.favorite_ids = @ \ {id},
                                            !.favorites =
                                                SelectSeq(@, LAMBDA fav : fav.stationuuid # id)],
                                  station, FALSE),
                       ret |-> Some(FALSE)]
                 ELSE [app |-> AfterToggle(
                                  [a EXCEPT !.favorite_ids = @ \cup {id},
                                            !.favorites =
                                                IF HasId(@, id)
                                                    THEN UpdateFirst(@, EntryOf(station))
                                                    ELSE Append(@, EntryOf(station))],
                                  station, TRUE),
                       ret |-> Some(TRUE)]

set_view_mode(a, mode) ==
    [a EXCEPT !.view_mode = mode, !.selected = 0, !.scroll_offset = 0]

select_next(a, visible_height) ==
    IF Len(current_station_list(a)) = 0 THEN a
    ELSE IF a.selected + 1 < Len(current_station_list(a))
        THEN [a EXCEPT !.selected = @ + 1,
                       !.scroll_offset =
                           IF a.selected + 1 >= @ + visible_height THEN @ + 1 ELSE @]
    ELSE a

select_prev(a) ==
    IF Len(current_station_list(a)) = 0 THEN a
    ELSE IF a.selected > 0
        THEN [a EXCEPT !.selected = @ - 1,
                       !.scroll_offset = IF a.selected - 1 < @ THEN a.selected - 1 ELSE @]
    ELSE a

\* the page is turned whether or not there is a next one
next_page_past_last(a) ==
    IF a.view_mode # "AllStations" THEN a
    ELSE [a EXCEPT !.page = a.page + 1,
                   !.params.offset = a.page * a.params.limit,
                   !.loading = TRUE]

\* the offset is not derived again
next_page_keeps_offset(a) ==
    IF a.view_mode # "AllStations" THEN a
    ELSE IF a.page < a.total_pages
        THEN [a EXCEPT !.page = @ + 1, !.loading = TRUE]
    ELSE a

next_page(a) ==
    IF a.view_mode # "AllStations" THEN a
    ELSE IF a.page < a.total_pages
        THEN [a EXCEPT !.page = @ + 1,
                       !.params.offset = ((a.page + 1) - 1) * a.params.limit,
                       !.loading = TRUE]
    ELSE a

prev_page(a) ==
    IF a.view_mode # "AllStations" THEN a
    ELSE IF a.page > 1
        THEN [a EXCEPT !.page = @ - 1,
                       !.params.offset = ((a.page - 1) - 1) * a.params.limit,
                       !.loading = TRUE]
    ELSE a

\* char::to_uppercase on ASCII
UpperChar(c) == IF c >= 97 /\ c <= 122 THEN c - 32 ELSE c

\* str::to_uppercase
ToUppercase(str) == [i \in 1..Len(str) |-> UpperChar(str[i])]

IsWhitespace(c) == c = 32

RECURSIVE TrimStart(_)
TrimStart(str) ==
    IF str # <<>> /\ IsWhitespace(Head(str)) THEN TrimStart(Tail(str)) ELSE str

RECURSIVE TrimEnd(_)
TrimEnd(str) ==
    IF str # <<>> /\ IsWhitespace(str[Len(str)])
        THEN TrimEnd(SubSeq(str, 1, Len(str) - 1))
        ELSE str

\* str::trim
Trim(str) == TrimEnd(TrimStart(str))

\* the offset is left as it is
update_params_keeps_offset(a) ==
    [a EXCEPT !.params.name = Trim(a.draft_name),
              !.params.tags = Trim(a.draft_tags),
              !.params.country = ToUppercase(Trim(a.draft_country)),
              !.params.language = ToLowercase(Trim(a.draft_language)),
              !.page = 1]

update_params_from_drafts(a) ==
    [a EXCEPT !.params.name = Trim(a.draft_name),
              !.params.tags = Trim(a.draft_tags),
              !.params.country = ToUppercase(Trim(a.draft_country)),
              !.params.language = ToLowercase(Trim(a.draft_language)),
              !.page = 1,
              !.params.offset = 0]

\* active_field_mut: the draft the mode edits
active_field(a) ==
    CASE a.mode = "Filtering(Name)" -> Some("draft_name")
      [] a.mode = "Filtering(Tags)" -> Some("draft_tags")
      [] a.mode = "Filtering(Country)" -> Some("draft_country")
      [] a.mode = "Filtering(Language)" -> Some("draft_language")
      [] OTHER -> None

next_field(a) ==
    [a EXCEPT !.mode =
        CASE a.mode = "Filtering(Name)" -> "Filtering(Tags)"
          [] a.mode = "Filtering(Tags)" -> "Filtering(Country)"
          [] a.mode = "Filtering(Country)" -> "Filtering(Language)"
          [] a.mode = "Filtering(Language)" -> "Filtering(Name)"
          [] OTHER -> "Normal"]

(***************************************************************************)
(* run_app (src/src/main.rs): the event loop, the tasks it spawns and the  *)
(* messages they send                                                      *)
(***************************************************************************)
\* the longest page short of a full one that the directory serves here
MaxShort == 2
\* n is not pressed to go beyond page MaxPage
MaxPage == 2
\* f is pressed to load the favorites only while fewer than MaxPending tasks
\* and messages are outstanding
MaxPending == 1
\* a key that starts a search is pressed only while fewer than MaxSearches
\* tasks and messages are outstanding
MaxSearches == 2
\* the drafts of the filter hold up to MaxDraft characters in all
MaxDraft == 1
\* Down is not pressed beyond row MaxSelected
MaxSelected == 1
\* visible.max(5)
MinVisible == 5

VisibleHeights == {MinVisible, MinVisible + 1}

\* the first n stations of the directory
Page(n) == [i \in 1..n |-> DirectoryRecord(i)]

\* what a search can return: an empty page, a short one, a full one
SearchPages ==
    {Page(n) : n \in {0, MaxShort, DefaultLimit}}

\* the three failures of search_stations
SearchErrors ==
    {[msg |-> "Request failed", n |-> 0], [msg |-> "API error", n |-> 0],
     [msg |-> "Parse error", n |-> 0]}

\* the favorites file at startup: none, one that is not JSON, one with entries
\* (out of order, an identifier twice, its later entry under the older name)
StartFiles ==
    {[state |-> "missing", entries |-> <<>>, writable |-> w] : w \in BOOLEAN}
    \cup {[state |-> "malformed", entries |-> <<>>, writable |-> w] : w \in BOOLEAN}
    \cup {[state |-> "entries",
           entries |-> <<EntryOf(Station(2, 1)), EntryOf(Station(1, 1)),
                         EntryOf(Station(1, 2))>>,
           writable |-> w] : w \in BOOLEAN}

\* an AppEvent in the channel: its kind and the request of the task that sent
\* it.  The payload is what the directory answered to that request; nothing
\* reads it before the event loop matches the message, and it is drawn there.
Message(kind, task) == [kind |-> kind, task |-> task]

RECURSIVE Collect(_, _)
\* the join loop of fetch_stations_by_uuids run on a sequence of task outputs
Collect(outputs, acc) ==
    IF outputs = <<>> THEN acc
    ELSE Collect(Tail(outputs), JoinArm(acc, Head(outputs)))

\* what fetch_stations_by_uuids(uuids) can return: each identifier with one of
\* the outcomes, the tasks joined in any order
FetchResults(uuids) ==
    {Collect([i \in 1..Len(uuids) |->
                 [uuid |-> uuids[order[i]], outcome |-> outs[order[i]],
                  station |-> DirectoryRecord(uuids[order[i]])]],
             [stations |-> <<>>, failed |-> <<>>]) :
        outs \in [1..Len(uuids) -> OutcomeSet],
        order \in Permutations(1..Len(uuids))}

\* trigger_load: the task holds a clone of the params
trigger_load(tasks, a) == Append(tasks, [params |-> a.params, uuids |-> <<>>])

\* trigger_load_favorites
trigger_load_favorites(tasks, uuids) ==
    Append(tasks, [params |-> SearchParamsDefault, uuids |-> uuids])

\* the tasks that have not sent yet and the messages not yet received
Outstanding == Len(searches) + Len(fav_loads) + Len(channel)

RemoveAt(s, k) == [i \in 1..(Len(s) - 1) |-> IF i < k THEN s[i] ELSE s[i + 1]]

\* fallback_stations_from_cached
fallback_stations_from_cached(favorites, failed) ==
    LET kept == SelectSeq(favorites, LAMBDA fav : fav.stationuuid \in ToSet(failed))
    IN  [i \in 1..Len(kept) |->
            [stationuuid |-> kept[i].stationuuid, name |-> kept[i].name,
             url |-> kept[i].url, url_resolved |-> 0]]

RECURSIVE PushUnseen(_, _)
\* for fallback in ..: if seen.insert(fallback.stationuuid) { stations.push(fallback) }
PushUnseen(list, fallbacks) ==
    IF fallbacks = <<>> THEN list
    ELSE IF HasId(list, Head(fallbacks).stationuuid)
        THEN PushUnseen(list, Tail(fallbacks))
    ELSE PushUnseen(Append(list, Head(fallbacks)), Tail(fallbacks))

RECURSIVE InsertByName(_, _)
InsertByName(s, e) ==
    IF s = <<>> THEN <<e>>
    ELSE IF StrLess(ToLowercase(e.name), ToLowercase(Head(s).name)) THEN <<e>> \o s
    ELSE <<Head(s)>> \o InsertByName(Tail(s), e)

RECURSIVE SortByName(_)
\* stations.sort_by_cached_key(|s| s.name.to_lowercase()): a stable sort
SortByName(s) ==
    IF s = <<>> THEN <<>>
    ELSE InsertByName(SortByName(SubSeq(s, 1, Len(s) - 1)), s[Len(s)])

\* the history when the last event was no completion
NoEvent ==
    [ev |-> "other", total_pages |-> 0, error |-> None, favorites_error |-> None,
     stale |-> FALSE, since |-> "none", prev |-> "none"]

AppIdle ==
    /\ app = AppNew
    /\ disk = [state |-> "missing", entries |-> <<>>, writable |-> TRUE]
    /\ loop_pc = "off"
    /\ searches = <<>>
    /\ fav_loads = <<>>
    /\ channel = <<>>
    /\ last = NoEvent
    /\ toggled = <<>>
    /\ favored = {}
    /\ player = PlayerNew

FetchIdle ==
    /\ station_uuids = <<>>
    /\ lookup = <<>>
    /\ task_pc = <<>>
    /\ fn_pc = "off"
    /\ server = FALSE
    /\ spawned = 0
    /\ permits = 0
    /\ stations = <<>>
    /\ failed_uuids = <<>>
    /\ result = <<>>

\* App::new(), Player::new(), the channel; the favorites file is what it is
AppInit ==
    /\ app = AppNew
    /\ disk \in StartFiles
    /\ loop_pc = "start"
    /\ searches = <<>>
    /\ fav_loads = <<>>
    /\ channel = <<>>
    /\ last = NoEvent
    /\ toggled = <<>>
    /\ favored = {}
    /\ player = PlayerNew

\* the history of the last event: kept for the completions StationsLoaded and
\* FavoritesLoaded, with the total_pages and the errors they found, and whether
\* the search was asked for with other params than App has now.  since tells
\* what the last StationsLoaded brought ("full", "short": a page of limit
\* stations or not) as long as no page was turned back and no filter committed
\* after it ("moved"); prev is what since was when the completion came.
Applied(ev) ==
    IF ev \in {"StationsLoaded", "FavoritesLoaded"}
        THEN [ev |-> ev, total_pages |-> app.total_pages, error |-> app.error,
              favorites_error |-> app.favorites_error,
              stale |-> ev = "StationsLoaded" /\ Head(channel).task.params # app.params,
              since |-> last.since, prev |-> last.since]
        ELSE [NoEvent EXCEPT !.since = IF ev \in {"p", "Enter"} THEN "moved"
                                       ELSE last.since]

\* load_favorites, set_favorites or set_error, app.loading = true, trigger_load
Startup ==
    /\ loop_pc = "start"
    /\ LET r == load_favorites(disk)
           a == IF r.ok THEN set_favorites(app, r.entries) ELSE set_error(app, r.err[1])
       IN  /\ app' = [a EXCEPT !.loading = TRUE]
           /\ searches' = trigger_load(searches, [a EXCEPT !.loading = TRUE])
    /\ loop_pc' = "drain"
    /\ last' = Applied("Startup")
    /\ UNCHANGED <<disk, fav_loads, channel, toggled, favored>>
    /\ UNCHANGED <<player, fetchVars>>

\* a failed search sends nothing
SearchDoneDropsError ==
    /\ \E k \in 1..Len(searches) :
          /\ searches' = RemoveAt(searches, k)
          /\ \/ channel' = Append(channel, Message("StationsLoaded", searches[k]))
             \/ channel' = channel
    /\ UNCHANGED <<app, disk, loop_pc, fav_loads, last, toggled, favored>>
    /\ UNCHANGED <<player, fetchVars>>

\* the task clears the loading flag itself
SearchDoneWritesApp ==
    /\ \E k \in 1..Len(searches) :
          /\ searches' = RemoveAt(searches, k)
          /\ \/ channel' = Append(channel, Message("StationsLoaded", searches[k]))
             \/ channel' = Append(channel, Message("LoadError", searches[k]))
    /\ app' = [app EXCEPT !.loading = FALSE]
    /\ UNCHANGED <<disk, loop_pc, fav_loads, last, toggled, favored>>
    /\ UNCHANGED <<player, fetchVars>>

\* a task of trigger_load: search_stations returns and the task sends
\* StationsLoaded or LoadError
SearchDone ==
    /\ \E k \in 1..Len(searches) :
          /\ searches' = RemoveAt(searches, k)
          /\ \/ channel' = Append(channel, Message("StationsLoaded", searches[k]))
             \/ channel' = Append(channel, Message("LoadError", searches[k]))
    /\ UNCHANGED <<app, disk, loop_pc, fav_loads, last, toggled, favored>>
    /\ UNCHANGED <<player, fetchVars>>

\* the task sends its message twice
FavoritesDoneSendsTwice ==
    /\ \E k \in 1..Len(fav_loads) :
          /\ fav_loads' = RemoveAt(fav_loads, k)
          /\ channel' = channel \o <<Message("FavoritesLoaded", fav_loads[k]),
                                     Message("FavoritesLoaded", fav_loads[k])>>
    /\ UNCHANGED <<app, disk, loop_pc, searches, last, toggled, favored>>
    /\ UNCHANGED <<player, fetchVars>>

\* a task of trigger_load_favorites: fetch_stations_by_uuids returns and the
\* task sends FavoritesLoaded
FavoritesDone ==
    /\ \E k \in 1..Len(fav_loads) :
          /\ fav_loads' = RemoveAt(fav_loads, k)
          /\ channel' = Append(channel, Message("FavoritesLoaded", fav_loads[k]))
    /\ UNCHANGED <<app, disk, loop_pc, searches, last, toggled, favored>>
    /\ UNCHANGED <<player, fetchVars>>

\* a completion asked for with other params than App has now is dropped
ReceiveStationsLoadedUnlessStale ==
    /\ loop_pc = "drain"
    /\ channel # <<>>
    /\ Head(channel).kind = "StationsLoaded"
    /\ IF Head(channel).task.params # app.params
          THEN app' = app
          ELSE \E page \in SearchPages :
                  /\ Len(page) <= Head(channel).task.params.limit
                  /\ app' = set_stations(app, page)
    /\ channel' = Tail(channel)
    /\ last' = [Applied("StationsLoaded") EXCEPT
                    !.since = IF Len(app'.stations) = app.params.limit
                                  THEN "full" ELSE "short"]
    /\ toggled' = <<>>
    /\ UNCHANGED <<disk, loop_pc, searches, fav_loads, favored>>
    /\ UNCHANGED <<player, fetchVars>>

\* rx.try_recv() yields StationsLoaded(stations)
ReceiveStationsLoaded ==
    /\ loop_pc = "drain"
    /\ channel # <<>>
    /\ Head(channel).kind = "StationsLoaded"
    /\ \E page \in SearchPages :
          /\ Len(page) <= Head(channel).task.params.limit
          /\ app' = set_stations(app, page)
    /\ channel' = Tail(channel)
    /\ last' = [Applied("StationsLoaded") EXCEPT
                    !.since = IF Len(app'.stations) = app.params.limit
                                  THEN "full" ELSE "short"]
    /\ toggled' = <<>>
    /\ UNCHANGED <<disk, loop_pc, searches, fav_loads, favored>>
    /\ UNCHANGED <<player, fetchVars>>

\* rx.try_recv() yields LoadError(err)
ReceiveLoadError ==
    /\ loop_pc = "drain"
    /\ channel # <<>>
    /\ Head(channel).kind = "LoadError"
    /\ \E err \in SearchErrors : app' = set_error(app, err)
    /\ channel' = Tail(channel)
    /\ last' = Applied("LoadError")
    /\ toggled' = <<>>
    /\ UNCHANGED <<disk, loop_pc, searches, fav_loads, favored>>
    /\ UNCHANGED <<player, fetchVars>>

\* the arm of FavoritesLoaded(stations, failed_uuids)
apply_favorites_loaded(a, list, failed) ==
    LET merged == PushUnseen(list, fallback_stations_from_cached(a.favorites, failed))
        shown == set_favorite_stations(a, SortByName(merged))
    IN  IF failed # <<>>
            THEN set_favorites_error(shown,
                     [msg |-> "Some favorites could not be refreshed from API",
                      n |-> Len(failed)])
            ELSE shown

\* rx.try_recv() yields FavoritesLoaded(stations, failed_uuids)
ReceiveFavoritesLoaded ==
    /\ loop_pc = "drain"
    /\ channel # <<>>
    /\ Head(channel).kind = "FavoritesLoaded"
    /\ \E r \in FetchResults(Head(channel).task.uuids) :
          app' = apply_favorites_loaded(app, r.stations, r.failed)
    /\ channel' = Tail(channel)
    /\ last' = Applied("FavoritesLoaded")
    /\ toggled' = <<>>
    /\ UNCHANGED <<disk, loop_pc, searches, fav_loads, favored>>
    /\ UNCHANGED <<player, fetchVars>>

\* the frame is drawn only when no task is running
DrawAfterTasks ==
    /\ loop_pc = "drain"
    /\ channel = <<>>
    /\ searches = <<>>
    /\ fav_loads = <<>>
    /\ loop_pc' = "poll"
    /\ UNCHANGED <<app, disk, searches, fav_loads, channel, last, toggled, favored>>
    /\ UNCHANGED <<player, fetchVars>>

\* rx.try_recv() finds the channel empty: terminal.draw, then event::poll
Draw ==
    /\ loop_pc = "drain"
    /\ channel = <<>>
    /\ loop_pc' = "poll"
    /\ UNCHANGED <<app, disk, searches, fav_loads, channel, last, toggled, favored>>
    /\ UNCHANGED <<player, fetchVars>>

\* event::poll times out, or the event read is no key press: the next iteration
PollTimeout ==
    /\ loop_pc = "poll"
    /\ loop_pc' = "drain"
    /\ UNCHANGED <<app, disk, searches, fav_loads, channel, last, toggled, favored>>
    /\ UNCHANGED <<player, fetchVars>>

KeyRead == loop_pc = "poll" /\ app.mode = "Normal"

\* KeyCode::Down
KeyDown ==
    /\ KeyRead
    /\ app.selected < MaxSelected
    /\ \E visible \in VisibleHeights : app' = select_next(app, visible)
    /\ loop_pc' = "drain"
    /\ last' = Applied("Down")
    /\ toggled' = <<>>
    /\ UNCHANGED <<disk, searches, fav_loads, channel, favored>>
    /\ UNCHANGED <<player, fetchVars>>

\* KeyCode::Up
KeyUp ==
    /\ KeyRead
    /\ app' = select_prev(app)
    /\ loop_pc' = "drain"
    /\ last' = Applied("Up")
    /\ toggled' = <<>>
    /\ UNCHANGED <<disk, searches, fav_loads, channel, favored>>
    /\ UNCHANGED <<player, fetchVars>>

\* the history of the toggles: what the App was when Space was pressed
ToggleRecord(a) ==
    [station |-> selected_station(a)[1],
     was_favorite |-> is_favorite(a, selected_station(a)[1].stationuuid),
     favorites |-> a.favorites]

\* KeyCode::Char(' '): toggle_favorite_for_selected, then save_favorites
KeySpace ==
    /\ KeyRead
    /\ LET r == toggle_favorite_for_selected(app)
       IN  IF r.ret = None
               THEN /\ app' = r.app
                    /\ UNCHANGED <<disk, toggled, favored>>
               ELSE /\ IF disk.writable
                          THEN /\ disk' = FileOf(disk, SavedForm(r.app.favorites))
                               /\ app' = [r.app EXCEPT !.error = None]
                          ELSE /\ disk' = disk
                               /\ app' = set_error(r.app,
                                             [msg |-> "Failed to write favorites file",
                                              n |-> 0])
                    /\ toggled' = (IF toggled = <<>> THEN <<>> ELSE <<toggled[Len(toggled)]>>)
                                      \o <<ToggleRecord(app)>>
                    /\ favored' =
                          LET st == selected_station(app)[1]
                              others == {f \in favored : f.stationuuid # st.stationuuid}
                          IN  IF r.ret = Some(TRUE) THEN others \cup {EntryOf(st)} ELSE others
    /\ loop_pc' = "drain"
    /\ last' = Applied("Space")
    /\ UNCHANGED <<searches, fav_loads, channel>>
    /\ UNCHANGED <<player, fetchVars>>

\* KeyCode::Char('q') | KeyCode::Char('Q') => break: run_app returns Ok(())
KeyQ ==
    /\ KeyRead
    /\ loop_pc' = "exited"
    /\ last' = [NoEvent EXCEPT !.ev = "q"]
    /\ toggled' = <<>>
    /\ player' = stop(player)
    /\ UNCHANGED <<app, disk, searches, fav_loads, channel, favored>>
    /\ UNCHANGED fetchVars

\* outside the program: the favorites file, which fs::write could not write,
\* becomes writable while the program runs
DiskRepaired ==
    /\ loop_pc # "exited"
    /\ ~disk.writable
    /\ disk' = [disk EXCEPT !.writable = TRUE]
    /\ UNCHANGED <<app, loop_pc, searches, fav_loads, channel, last, toggled, favored>>
    /\ UNCHANGED <<player, fetchVars>>

\* KeyCode::Char('f')
KeyF ==
    /\ KeyRead
    /\ IF app.view_mode = "AllStations"
          THEN LET a == [set_view_mode(app, "Favorites") EXCEPT !.favorites_error = None]
               IN  IF a.favorites = <<>>
                       THEN /\ app' = set_favorite_stations(a, <<>>)
                            /\ UNCHANGED fav_loads
                       ELSE /\ Outstanding < MaxPending
                            /\ app' = [a EXCEPT !.favorites_loading = TRUE]
                            /\ fav_loads' = trigger_load_favorites(fav_loads,
                                   [i \in 1..Len(a.favorites) |-> a.favorites[i].stationuuid])
          ELSE /\ app' = set_view_mode(app, "AllStations")
               /\ UNCHANGED fav_loads
    /\ loop_pc' = "drain"
    /\ last' = Applied("f")
    /\ toggled' = <<>>
    /\ UNCHANGED <<disk, searches, channel, favored>>
    /\ UNCHANGED <<player, fetchVars>>

\* KeyCode::Enter in Normal mode: the selected station is played
KeyEnter ==
    /\ KeyRead
    /\ IF selected_station(app) # None
          THEN \E outcome \in SpawnOutcomes :
                 LET station == selected_station(app)[1]
                     url == IF station.url_resolved # 0 THEN station.url_resolved
                            ELSE station.url
                 IN  /\ player' = play(player, url, outcome)
                     /\ app' = IF play_message(outcome) # None
                                  THEN [app EXCEPT !.error = play_message(outcome)]
                                  ELSE [app EXCEPT !.current_station = Some(station),
                                                   !.error = None]
          ELSE UNCHANGED <<app, player>>
    /\ loop_pc' = "drain"
    /\ last' = Applied("play")
    /\ toggled' = <<>>
    /\ UNCHANGED <<disk, searches, fav_loads, channel, favored>>
    /\ UNCHANGED fetchVars

\* KeyCode::Char('s')
KeyS ==
    /\ KeyRead
    /\ player' = stop(player)
    /\ app' = [app EXCEPT !.current_station = None]
    /\ loop_pc' = "drain"
    /\ last' = Applied("s")
    /\ toggled' = <<>>
    /\ UNCHANGED <<disk, searches, fav_loads, channel, favored>>
    /\ UNCHANGED fetchVars

\* KeyCode::Char('+')
KeyPlus ==
    /\ KeyRead
    /\ player' = volume_up(player)
    /\ app' = [app EXCEPT !.volume = volume_up(player).volume]
    /\ loop_pc' = "drain"
    /\ last' = Applied("+")
    /\ toggled' = <<>>
    /\ UNCHANGED <<disk, searches, fav_loads, channel, favored>>
    /\ UNCHANGED fetchVars

\* KeyCode::Char('-')
KeyMinus ==
    /\ KeyRead
    /\ player' = volume_down(player)
    /\ app' = [app EXCEPT !.volume = volume_down(player).volume]
    /\ loop_pc' = "drain"
    /\ last' = Applied("-")
    /\ toggled' = <<>>
    /\ UNCHANGED <<disk, searches, fav_loads, channel, favored>>
    /\ UNCHANGED fetchVars

\* KeyCode::Char('n')
KeyN ==
    /\ KeyRead
    /\ IF ~app.loading /\ app.view_mode = "AllStations"
          THEN /\ Outstanding < MaxSearches
               /\ next_page(app).page <= MaxPage
               /\ app' = next_page(app)
               /\ searches' = trigger_load(searches, next_page(app))
          ELSE UNCHANGED <<app, searches>>
    /\ loop_pc' = "drain"
    /\ last' = Applied("n")
    /\ toggled' = <<>>
    /\ UNCHANGED <<disk, fav_loads, channel, favored>>
    /\ UNCHANGED <<player, fetchVars>>

\* KeyCode::Char('p')
KeyP ==
    /\ KeyRead
    /\ IF ~app.loading /\ app.view_mode = "AllStations"
          THEN /\ Outstanding < MaxSearches
               /\ app' = prev_page(app)
               /\ searches' = trigger_load(searches, prev_page(app))
          ELSE UNCHANGED <<app, searches>>
    /\ loop_pc' = "drain"
    /\ last' = Applied("p")
    /\ toggled' = <<>>
    /\ UNCHANGED <<disk, fav_loads, channel, favored>>
    /\ UNCHANGED <<player, fetchVars>>

\* KeyCode::Char('/')
KeySlash ==
    /\ KeyRead
    /\ app' = [app EXCEPT !.mode = "Filtering(Name)"]
    /\ loop_pc' = "drain"
    /\ last' = Applied("/")
    /\ toggled' = <<>>
    /\ UNCHANGED <<disk, searches, fav_loads, channel, favored>>
    /\ UNCHANGED <<player, fetchVars>>

\* a key is read in the mode Filtering(_)
FilterRead == loop_pc = "poll" /\ app.mode # "Normal"

\* KeyCode::Esc
FilterEsc ==
    /\ FilterRead
    /\ app' = [app EXCEPT !.mode = "Normal"]
    /\ loop_pc' = "drain"
    /\ last' = Applied("Esc")
    /\ toggled' = <<>>
    /\ UNCHANGED <<disk, searches, fav_loads, channel, favored>>
    /\ UNCHANGED <<player, fetchVars>>

\* KeyCode::Tab
FilterTab ==
    /\ FilterRead
    /\ app' = next_field(app)
    /\ loop_pc' = "drain"
    /\ last' = Applied("Tab")
    /\ toggled' = <<>>
    /\ UNCHANGED <<disk, searches, fav_loads, channel, favored>>
    /\ UNCHANGED <<player, fetchVars>>

\* the characters typed: a space and "a"
DraftChars == {32, 97}

DraftLength(a) ==
    Len(a.draft_name) + Len(a.draft_tags) + Len(a.draft_country) + Len(a.draft_language)

\* KeyCode::Char(c): field.push(c)
FilterChar ==
    /\ FilterRead
    /\ DraftLength(app) < MaxDraft
    /\ \E c \in DraftChars :
          app' = [app EXCEPT ![active_field(app)[1]] = Append(@, c)]
    /\ loop_pc' = "drain"
    /\ last' = Applied("Char")
    /\ toggled' = <<>>
    /\ UNCHANGED <<disk, searches, fav_loads, channel, favored>>
    /\ UNCHANGED <<player, fetchVars>>

\* KeyCode::Backspace: field.pop()
FilterBackspace ==
    /\ FilterRead
    /\ app' = [app EXCEPT ![active_field(app)[1]] =
                              IF @ = <<>> THEN @ ELSE SubSeq(@, 1, Len(@) - 1)]
    /\ loop_pc' = "drain"
    /\ last' = Applied("Backspace")
    /\ toggled' = <<>>
    /\ UNCHANGED <<disk, searches, fav_loads, channel, favored>>
    /\ UNCHANGED <<player, fetchVars>>

\* KeyCode::Enter in the mode Filtering(_): the filter is committed
FilterEnter ==
    /\ FilterRead
    /\ Outstanding < MaxSearches
    /\ LET a == set_view_mode([update_params_from_drafts(app)
                                  EXCEPT !.mode = "Normal", !.loading = TRUE],
                              "AllStations")
       IN  /\ app' = a
           /\ searches' = trigger_load(searches, a)
    /\ loop_pc' = "drain"
    /\ last' = Applied("Enter")
    /\ toggled' = <<>>
    /\ UNCHANGED <<disk, fav_loads, channel, favored>>
    /\ UNCHANGED <<player, fetchVars>>

\* the session of a user who pages through the search results
NextPaging ==
    \/ Startup
    \/ SearchDone
    \/ ReceiveStationsLoaded
    \/ ReceiveLoadError
    \/ Draw
    \/ PollTimeout
    \/ KeyDown
    \/ KeyUp
    \/ KeyN
    \/ KeyP

\* the session of a user who keeps favorites
NextFavorites ==
    \/ Startup
    \/ SearchDone
    \/ FavoritesDone
    \/ ReceiveStationsLoaded
    \/ ReceiveLoadError
    \/ ReceiveFavoritesLoaded
    \/ Draw
    \/ PollTimeout
    \/ KeyDown
    \/ KeyUp
    \/ KeySpace
    \/ KeyF
    \/ KeyQ
    \/ DiskRepaired

\* the session of a user who filters the search by name and pages through the
\* results
NextFilter ==
    \/ Startup
    \/ SearchDone
    \/ ReceiveStationsLoaded
    \/ ReceiveLoadError
    \/ Draw
    \/ PollTimeout
    \/ KeyN
    \/ KeyP
    \/ KeySlash
    \/ FilterEsc
    \/ FilterChar
    \/ FilterEnter

\* every key of the two modes that is modelled
Next == NextPaging \/ NextFavorites \/ NextFilter \/ FilterTab \/ FilterBackspace
           \/ KeyEnter \/ KeyS \/ KeyPlus \/ KeyMinus

\* the program starts: no call of fetch_stations_by_uuids is modelled step by step
Init == AppInit /\ FetchIdle

Spec == Init /\ [][Next]_vars

SpecPaging == Init /\ [][NextPaging]_vars

SpecFavorites == Init /\ [][NextFavorites]_vars

\* the program starts with no favorites file
InitFilter == AppInit /\ disk.state = "missing" /\ disk.writable /\ FetchIdle

SpecFilter == InitFilter /\ [][NextFilter]_vars

\* the session of a user who plays and stops the stations of the first page
\* and turns the volume up and down
NextVolume ==
    \/ Startup
    \/ SearchDone
    \/ ReceiveStationsLoaded
    \/ ReceiveLoadError
    \/ Draw
    \/ PollTimeout
    \/ KeyDown
    \/ KeyEnter
    \/ KeyS
    \/ KeyPlus
    \/ KeyMinus

SpecVolume == InitFilter /\ [][NextVolume]_vars

\* a step the event loop takes by itself: the startup, a message taken from the
\* channel, the frame drawn, event::poll returning after the tick
LoopStep ==
    \/ Startup
    \/ ReceiveStationsLoaded
    \/ ReceiveLoadError
    \/ ReceiveFavoritesLoaded
    \/ Draw
    \/ PollTimeout

\* a call to the directory returns
TaskStep ==
    \/ SearchDone
    \/ FavoritesDone

\* the session of a user who only looks at the favorites and quits: the keys f
\* and q, one task or message outstanding at a time
NextTasks ==
    \/ Startup
    \/ SearchDone
    \/ FavoritesDone
    \/ ReceiveStationsLoaded
    \/ ReceiveLoadError
    \/ ReceiveFavoritesLoaded
    \/ Draw
    \/ PollTimeout
    \/ KeyF
    \/ KeyQ

SpecTasks == Init /\ [][NextTasks]_vars

\* the loop goes round; a call to the directory may never return
SpecLoopFair == SpecTasks /\ WF_vars(LoopStep)

\* the loop goes round and every call to the directory returns
SpecTasksFair == SpecTasks /\ WF_vars(LoopStep) /\ WF_vars(TaskStep)

\* the session of a user who turns the pages and quits
NextLoading ==
    \/ Startup
    \/ SearchDone
    \/ ReceiveStationsLoaded
    \/ ReceiveLoadError
    \/ Draw
    \/ PollTimeout
    \/ KeyN
    \/ KeyP
    \/ KeyQ

SpecLoading == InitFilter /\ [][NextLoading]_vars

\* the loop goes round and every call to the directory returns
SpecLoadingFair == SpecLoading /\ WF_vars(LoopStep) /\ WF_vars(TaskStep)

(***************************************************************************)
(* The cursor of App on its own: select_next, select_prev and the removal  *)
(* of a favorite in the Favorites view, called on lists long enough to     *)
(* scroll, the terminal resized between the calls.                         *)
(***************************************************************************)
\* the lists have up to MaxRows stations
MaxRows == 7

\* the App when a list of n stations has just been set: by set_stations in the
\* AllStations view, or in the Favorites view when the n favorites were loaded
AppWithList(view, n) ==
    IF view = "AllStations" THEN set_stations(AppNew, Page(n))
    ELSE set_favorite_stations(
             set_view_mode(
                 set_favorites(AppNew, [i \in 1..n |-> EntryOf(DirectoryRecord(i))]),
                 "Favorites"),
             SortByName(Page(n)))

CursorInit ==
    /\ \E view \in {"AllStations", "Favorites"}, n \in 0..MaxRows :
          app = AppWithList(view, n)
    /\ disk = [state |-> "missing", entries |-> <<>>, writable |-> TRUE]
    /\ loop_pc = "off"
    /\ searches = <<>>
    /\ fav_loads = <<>>
    /\ channel = <<>>
    /\ last = [NoEvent EXCEPT !.ev = "other"] @@ [visible |-> MinVisible]
    /\ toggled = <<>>
    /\ favored = {}
    /\ player = PlayerNew

\* the history of a cursor call: ev names it when it moved the cursor
Moved(a, b, ev) == IF a.selected # b.selected THEN ev ELSE "stay"

\* app.select_next(visible.max(5)): the height is that of the terminal now
CursorDown ==
    /\ \E visible \in VisibleHeights :
          /\ app' = select_next(app, visible)
          /\ last' = [last EXCEPT !.ev = Moved(app, select_next(app, visible),
                                                  "select_next"),
                                  !.visible = visible]
    /\ UNCHANGED <<disk, loop_pc, searches, fav_loads, channel, toggled, favored>>
    /\ UNCHANGED <<player, fetchVars>>

\* app.select_prev()
CursorUp ==
    /\ app' = select_prev(app)
    /\ last' = [last EXCEPT !.ev = Moved(app, select_prev(app), "select_prev")]
    /\ UNCHANGED <<disk, loop_pc, searches, fav_loads, channel, toggled, favored>>
    /\ UNCHANGED <<player, fetchVars>>

\* app.toggle_favorite_for_selected() on a favorite shown in the Favorites view
CursorRemove ==
    /\ app.view_mode = "Favorites"
    /\ selected_station(app) # None
    /\ is_favorite(app, selected_station(app)[1].stationuuid)
    /\ app' = toggle_favorite_for_selected(app).app
    /\ last' = [last EXCEPT !.ev = "removal"]
    /\ UNCHANGED <<disk, loop_pc, searches, fav_loads, channel, toggled, favored>>
    /\ UNCHANGED <<player, fetchVars>>

CursorNext ==
    \/ CursorDown
    \/ CursorUp
    \/ CursorRemove

InitCursor == CursorInit /\ FetchIdle

SpecCursor == InitCursor /\ [][CursorNext]_vars

(***************************************************************************)
(* save_favorites_to_path and load_favorites_from_path on their own: a     *)
(* list is saved, the file is loaded, and the loaded list is saved and     *)
(* loaded once more.                                                       *)
(***************************************************************************)
\* the lists saved have up to MaxEntries entries
MaxEntries == 3

\* the names "A", "a" and "B"; identifier 0 is a blank one
PersistEntries == [stationuuid : 0..2, name : {<<65>>, <<97>>, <<66>>}, url : 1..2]

PersistInputs == UNION {[1..n -> PersistEntries] : n \in 0..MaxEntries}

\* the list to save is in app.favorites, no file is there yet
PersistInit ==
    /\ \E input \in PersistInputs :
          /\ app = set_favorites(AppNew, input)
          /\ last = [ev |-> "input", input |-> input, round |-> 0, first |-> <<>>]
    /\ disk = [state |-> "missing", entries |-> <<>>, writable |-> TRUE]
    /\ loop_pc = "off"
    /\ searches = <<>>
    /\ fav_loads = <<>>
    /\ channel = <<>>
    /\ toggled = <<>>
    /\ favored = {}
    /\ player = PlayerNew

\* save_favorites_to_path(path, &favorites)
PersistSave ==
    /\ last.ev \in {"input", "loaded"}
    /\ last.round < 2
    /\ disk' = FileOf(disk, SavedForm(app.favorites))
    /\ last' = [last EXCEPT !.ev = "saved"]
    /\ UNCHANGED <<app, loop_pc, searches, fav_loads, channel, toggled, favored>>
    /\ UNCHANGED <<player, fetchVars>>

\* load_favorites_from_path(path), the list loaded replaces the one in memory
PersistLoad ==
    /\ last.ev = "saved"
    /\ LET r == load_favorites(disk)
       IN  /\ r.ok
           /\ app' = set_favorites(app, r.entries)
           /\ last' = [last EXCEPT !.ev = "loaded", !.round = @ + 1,
                                   !.first = IF last.round = 0 THEN r.entries ELSE @]
    /\ UNCHANGED <<disk, loop_pc, searches, fav_loads, channel, toggled, favored>>
    /\ UNCHANGED <<player, fetchVars>>

PersistNext ==
    \/ PersistSave
    \/ PersistLoad

InitPersist == PersistInit /\ FetchIdle

SpecPersist == InitPersist /\ [][PersistNext]_vars

(***************************************************************************)
(* next_page and prev_page on their own, called on an App at any page of   *)
(* up to MaxPage + 1 pages, in either view.                                *)
(***************************************************************************)
\* the App at page `page` of `total_pages`: the page's stations are shown, or
\* the page was just turned to and is loading
AppAtPage(view, page, total_pages, loading, n) ==
    [set_view_mode(set_stations(AppNew, Page(n)), view)
        EXCEPT !.page = page, !.total_pages = total_pages,
               !.params.offset = (page - 1) * DefaultLimit, !.loading = loading]

PagesInit ==
    /\ \E view \in {"AllStations", "Favorites"}, total_pages \in 1..(MaxPage + 1),
          loading \in BOOLEAN, n \in {0, MaxShort} :
          \E page \in 1..total_pages :
             /\ app = AppAtPage(view, page, total_pages, loading, n)
             /\ last = [ev |-> "other", before |-> app]
    /\ disk = [state |-> "missing", entries |-> <<>>, writable |-> TRUE]
    /\ loop_pc = "off"
    /\ searches = <<>>
    /\ fav_loads = <<>>
    /\ channel = <<>>
    /\ toggled = <<>>
    /\ favored = {}
    /\ player = PlayerNew

\* app.next_page()
PageNext ==
    /\ app' = next_page(app)
    /\ last' = [ev |-> "next_page", before |-> app]
    /\ UNCHANGED <<disk, loop_pc, searches, fav_loads, channel, toggled, favored>>
    /\ UNCHANGED <<player, fetchVars>>

\* app.prev_page()
PagePrev ==
    /\ app' = prev_page(app)
    /\ last' = [ev |-> "prev_page", before |-> app]
    /\ UNCHANGED <<disk, loop_pc, searches, fav_loads, channel, toggled, favored>>
    /\ UNCHANGED <<player, fetchVars>>

PagesNext ==
    \/ PageNext
    \/ PagePrev

InitPages == PagesInit /\ FetchIdle

SpecPages == InitPages /\ [][PagesNext]_vars

\* fetch_stations_by_uuids alone, called once
InitFetch == FetchInit /\ AppIdle

SpecFetch == InitFetch /\ [][FetchNext]_vars

\* every lookup ends and a runnable task or the function itself is run at some time
SpecFetchFair == SpecFetch /\ WF_vars(FetchNext)

(***************************************************************************)
(* Claims about fetch_stations_by_uuids                                    *)
(***************************************************************************)
\* C1: at no time are more than 8 fetch_station_by_uuid calls in flight,
\* whatever the number of identifiers and the interleaving of the tasks.
C1_InFlightAtMostEight == Cardinality(InFlight) <= PermitCount

\* more identifiers than permits: 8 calls in flight and a task waiting for a permit
C1_Witness ==
    /\ N > PermitCount
    /\ Cardinality(InFlight) = PermitCount
    /\ \E t \in Tasks : task_pc[t] = "acquire"

ResolvedIds(r) == {r[1][i].stationuuid : i \in 1..Len(r[1])}

FailedIds(r) == ToSet(r[2])

\* C2: for a non-empty list of distinct identifiers the returned pair covers
\* every identifier whose task was not lost, and no identifier is both in
\* resolved and in failed.
C2_PartitionCoversAndDisjoint ==
    (fn_pc = "returned" /\ N > 0) =>
        /\ \A t \in Tasks :
              lookup[t] # "panic" =>
                  station_uuids[t] \in ResolvedIds(result) \cup FailedIds(result)
        /\ ResolvedIds(result) \cap FailedIds(result) = {}

C2_Witness ==
    /\ fn_pc = "returned"
    /\ \E a, b, c \in Tasks :
          lookup[a] = "found" /\ lookup[b] = "absent" /\ lookup[c] = "panic"
    /\ ResolvedIds(result) # {}
    /\ FailedIds(result) # {}

\* C3: the function returns only after every spawned task has finished and been
\* joined; a task that failed or found nothing did not keep a sibling from its
\* lookup nor make the function return early.
C3_ReturnsAfterAllTasks ==
    fn_pc = "returned" => \A t \in Tasks : task_pc[t] = "joined"

C3_Witness ==
    /\ fn_pc = "returned"
    /\ N >= 2
    /\ lookup[1] = "error"
    /\ lookup[2] = "found"
    /\ ResolvedIds(result) = {station_uuids[2]}

\* C4: with every lookup ending and the tasks scheduled, the function returns a
\* pair of lists for every N, N > 8 included: every task got its permit and was
\* joined.
C4_EventuallyReturns ==
    <>(/\ fn_pc = "returned"
       /\ \A t \in Tasks : task_pc[t] = "joined"
       /\ Len(result) = 2)

C4_Witness ==
    /\ fn_pc = "returned"
    /\ N > PermitCount
    /\ permits = PermitCount

\* the outputs of the tasks in the order of the request
RequestOrder == [i \in 1..N |-> TaskOutput(i)]

\* C5: the content of the returned pair does not depend on the order in which
\* the tasks complete: it is the content the join loop builds when the tasks
\* are joined in the order of the request.
C5_ContentIndependentOfOrder ==
    fn_pc = "returned" =>
        LET inOrder == Collect(RequestOrder, [stations |-> <<>>, failed |-> <<>>])
        IN  /\ ToSet(result[1]) = ToSet(inOrder.stations)
            /\ ToSet(result[2]) = ToSet(inOrder.failed)

\* the tasks were not joined in the order of the request
C5_Witness ==
    /\ fn_pc = "returned"
    /\ N > 0
    /\ \E i, j \in 1..Len(result[1]) :
          i < j /\ result[1][i].stationuuid > result[1][j].stationuuid
    /\ \E i, j \in 1..Len(result[2]) : i < j /\ result[2][i] > result[2][j]

\* C6: resolved holds exactly the stations of the identifiers whose lookup
\* returned a record, failed exactly the identifiers whose lookup returned no
\* record or an error; with no task lost the two lengths add up to N.
C6_ExactPartition ==
    fn_pc = "returned" =>
        /\ ToSet(result[1]) =
              {DirectoryRecord(station_uuids[t]) : t \in {u \in Tasks : lookup[u] = "found"}}
        /\ Len(result[1]) = Cardinality({t \in Tasks : lookup[t] = "found"})
        /\ FailedIds(result) =
              {station_uuids[t] : t \in {u \in Tasks : lookup[u] \in {"absent", "error"}}}
        /\ Len(result[2]) = Cardinality({t \in Tasks : lookup[t] \in {"absent", "error"}})
        /\ (\A t \in Tasks : lookup[t] # "panic") => Len(result[1]) + Len(result[2]) = N

C6_Witness ==
    /\ fn_pc = "returned"
    /\ N = MaxIds
    /\ \A t \in Tasks : lookup[t] # "panic"
    /\ \E a, b, c \in Tasks :
          lookup[a] = "found" /\ lookup[b] = "absent" /\ lookup[c] = "error"
    /\ Len(result[1]) + Len(result[2]) = N

\* C7: with an empty list the function returns two empty lists at once: no
\* server lookup, no semaphore, no task, no permit taken, no call.
C7_EmptyInputReturnsAtOnce ==
    station_uuids = <<>> =>
        /\ fn_pc \in {"entry", "returned"}
        /\ ~server
        /\ permits = 0
        /\ spawned = 0
        /\ InFlight = {}
        /\ fn_pc = "returned" => result = <<(<<>>), (<<>>)>>

C7_Witness ==
    /\ station_uuids = <<>>
    /\ fn_pc = "returned"
    /\ result = <<(<<>>), (<<>>)>>

(***************************************************************************)
(* Claims about App                                                        *)
(***************************************************************************)
\* C8: after set_stations(list), whatever the App was before: a list of exactly
\* params.limit items gives total_pages = page + 1, a list of fewer items gives
\* total_pages = page, also when total_pages was larger before the call.
C8_TotalPagesFollowsLastPage ==
    last.ev = "StationsLoaded" =>
        /\ Len(app.stations) = app.params.limit => app.total_pages = app.page + 1
        /\ Len(app.stations) < app.params.limit => app.total_pages = app.page

\* a short page arrives when total_pages was beyond the page: it comes down
C8_Witness ==
    /\ last.ev = "StationsLoaded"
    /\ Len(app.stations) < app.params.limit
    /\ last.total_pages > app.page
    /\ app.total_pages = app.page

\* Space was pressed twice in a row on the same station
ToggledTwice ==
    /\ Len(toggled) = 2
    /\ toggled[1].station = toggled[2].station

\* the stored entry of the station differed from the station when Space was
\* first pressed
StoredEntryWasStale ==
    \E f \in ToSet(toggled[1].favorites) :
        /\ f.stationuuid = toggled[1].station.stationuuid
        /\ f # EntryOf(toggled[1].station)

\* C9 as stated: toggling twice on the same unchanged station returns the
\* identifier to its original favorite status and leaves favorites unchanged in
\* content (the same set of identifier/name/URL entries).
C9_ToggleTwiceRestores ==
    ToggledTwice =>
        /\ is_favorite(app, toggled[1].station.stationuuid) = toggled[1].was_favorite
        /\ ToSet(app.favorites) = ToSet(toggled[1].favorites)

\* C9 as amended: toggling twice on the same unchanged station returns the
\* identifier to its original favorite status; favorites is unchanged in content
\* when the station was no favorite, and when it was one its entry is the
\* station's name and URL (a stored entry that differed is replaced), every
\* other entry unchanged.
C9_ToggleTwiceRestoresOrRefreshes ==
    ToggledTwice =>
        LET st == toggled[1].station
            before == ToSet(toggled[1].favorites)
        IN  /\ is_favorite(app, st.stationuuid) = toggled[1].was_favorite
            /\ ToSet(app.favorites) =
                  IF toggled[1].was_favorite
                      THEN {f \in before : f.stationuuid # st.stationuuid}
                               \cup {EntryOf(st)}
                      ELSE before

\* a favorite whose stored name differs from the station's is toggled twice
C9_Witness ==
    /\ ToggledTwice
    /\ toggled[1].was_favorite
    /\ StoredEntryWasStale
    /\ is_favorite(app, toggled[1].station.stationuuid)
    /\ EntryOf(toggled[1].station) \in ToSet(app.favorites)

\* C10: after any sequence of toggle_favorite_for_selected calls, the names and
\* URLs of the stations changing between them, favorites holds at most one entry
\* per identifier, and the entry of a station favorited carries the name and URL
\* the station had at its most recent favoriting.
C10_OneEntryPerIdMostRecent ==
    /\ \A i, j \in 1..Len(app.favorites) :
          app.favorites[i].stationuuid = app.favorites[j].stationuuid => i = j
    /\ \A f \in favored :
          \E i \in 1..Len(app.favorites) : app.favorites[i] = f

\* a station stored under an older name is favorited again, next to another
\* favorite: one entry each, the station's under its name of now
C10_Witness ==
    /\ ToggledTwice
    /\ StoredEntryWasStale
    /\ EntryOf(toggled[1].station) \in favored
    /\ Len(app.favorites) = 2
    /\ Cardinality(app.favorite_ids) = 2

\* C11: in every reachable state favorite_ids is exactly the set of the
\* identifiers of the entries of favorites.
C11_FavoriteIdsMirrorFavorites ==
    app.favorite_ids = {app.favorites[i].stationuuid : i \in 1..Len(app.favorites)}

\* of two favorites loaded from the file one was removed and added again by
\* toggles, the other is as it was loaded
C11_Witness ==
    /\ Len(toggled) = 2
    /\ toggled[1].was_favorite
    /\ ~toggled[2].was_favorite
    /\ app.favorite_ids = {1, 2}
    /\ Cardinality(favored) = 1
    /\ Len(app.favorites) = 2

C13_SelectedInWindow ==
    last.ev \in {"select_next", "select_prev", "removal"} =>
        /\ app.scroll_offset <= app.selected
        /\ app.selected < app.scroll_offset + last.visible

\* C14: after a FavoritesLoaded completion has been applied, favorite_stations
\* has a station for every identifier of favorites and is sorted by
\* case-insensitive name.
C14_EveryFavoriteShown ==
    last.ev = "FavoritesLoaded" =>
        /\ \A i \in 1..Len(app.favorites) :
              HasId(app.favorite_stations, app.favorites[i].stationuuid)
        /\ \A i, j \in 1..Len(app.favorite_stations) :
              i < j => ~StrLess(ToLowercase(app.favorite_stations[j].name),
                                ToLowercase(app.favorite_stations[i].name))

\* the last entry of the input with the identifier id
LastWithId(input, id) ==
    input[CHOOSE i \in 1..Len(input) :
              /\ input[i].stationuuid = id
              /\ \A j \in (i + 1)..Len(input) : input[j].stationuuid # id]

\* list is in the order of the lower-cased names, equal names in that of the identifiers
SortedByNameThenId(list) ==
    \A i \in 1..(Len(list) - 1) : EntryLess(list[i], list[i + 1])

\* list has one entry for each identifier of ids and none for any other, and
\* the entry has the name and url of the last entry of the input with the identifier
OneEntryPerIdOf(list, input, ids) ==
    /\ {list[i].stationuuid : i \in 1..Len(list)} = ids
    /\ Len(list) = Cardinality(ids)
    /\ \A i \in 1..Len(list) :
          LET e == LastWithId(input, list[i].stationuuid)
          IN  list[i].name = e.name /\ list[i].url = e.url

\* C15 as stated: a list saved and loaded is sorted by lower-cased name, then
\* identifier, and has exactly one entry for every identifier of the input, with
\* the name and url of the last input entry with that identifier; saving and
\* loading the loaded list gives the same list.
C15_RoundTrip ==
    last.ev = "loaded" =>
        /\ SortedByNameThenId(last.first)
        /\ OneEntryPerIdOf(last.first, last.input,
                           {last.input[i].stationuuid : i \in 1..Len(last.input)})
        /\ app.favorites = last.first

\* C15 amended: the same, for the identifiers of the input that are not blank;
\* an entry with a blank identifier is in no saved or loaded list.
C15_RoundTripNonBlank ==
    last.ev = "loaded" =>
        /\ SortedByNameThenId(last.first)
        /\ OneEntryPerIdOf(last.first, last.input,
                           {last.input[i].stationuuid : i \in 1..Len(last.input)}
                               \ {id \in 0..2 : BlankId(id)})
        /\ app.favorites = last.first

\* saved and loaded twice: an input with an identifier twice under names that
\* differ, a blank identifier, and two names equal but for the case
C15_Witness ==
    /\ last.ev = "loaded"
    /\ last.round = 2
    /\ Len(last.input) = 3
    /\ last.input[1].stationuuid = last.input[3].stationuuid
    /\ last.input[1].name # last.input[3].name
    /\ BlankId(last.input[2].stationuuid)
    /\ Len(app.favorites) = 1
    /\ app.favorites[1].name = last.input[3].name

\* C16: load_favorites of a file that does not exist is Ok with no entry;
\* of a file that is not JSON it is Err with no list.  The startup of run_app
\* with the first file leaves favorites empty and the error slot empty, with
\* the second it puts the message in the error slot, leaves favorites empty,
\* and in both cases goes on to the first search and into the event loop.
C16_StartupLoadsOrRecords ==
    [][loop_pc = "start" =>
          /\ disk.state = "missing" =>
                /\ load_favorites(disk) = [ok |-> TRUE, entries |-> <<>>, err |-> None]
                /\ app'.error = None
          /\ disk.state = "malformed" =>
                /\ ~load_favorites(disk).ok
                /\ load_favorites(disk).entries = <<>>
                /\ load_favorites(disk).err # None
                /\ app'.error = load_favorites(disk).err
          /\ disk.state \in {"missing", "malformed"} =>
                /\ app'.favorites = <<>>
                /\ app'.favorite_ids = {}
                /\ loop_pc' = "drain"
                /\ app'.loading
                /\ Len(searches') = 1]_vars

\* the file was not JSON: the loop runs, the first search is out, the message
\* of load_favorites is in the error slot and there is no favorite
C16_Witness ==
    /\ disk.state = "malformed"
    /\ loop_pc = "drain"
    /\ Len(searches) = 1
    /\ app.error = Some([msg |-> "Failed to parse favorites JSON", n |-> 0])
    /\ app.favorites = <<>>

\* the messages of LoadError, the errors of the search view
SearchErrorSlots == {Some(e) : e \in SearchErrors}

\* C17: with an error in a slot the event loop runs on until the key q; when StationsLoaded
\* has been applied the error slot is empty, when FavoritesLoaded has been
\* applied with no identifier failed favorites_error is empty; StationsLoaded
\* leaves favorites_error as it was, and a FavoritesLoaded with no identifier
\* failed leaves a search error in the error slot as it was.
C17_ErrorsClearedPerView ==
    /\ app.error # None => loop_pc \in {"drain", "poll"} \/ last.ev = "q"
    /\ last.ev = "StationsLoaded" =>
          /\ app.error = None
          /\ app.favorites_error = last.favorites_error
    /\ last.ev = "FavoritesLoaded" /\ app.favorites_error = None =>
          /\ app.error \notin {Some([msg |-> "Some favorites could not be refreshed from API",
                                     n |-> n]) : n \in 1..MaxIds}
          /\ last.error \in SearchErrorSlots => app.error = last.error

\* C18: when run_app has returned after the key q and the favorites file can
\* be written, loading the file gives the favorites in memory, deduplicated
\* and sorted, also when a save after a toggle had failed.
C18_ExitFlushesFavorites ==
    loop_pc = "exited" /\ disk.writable =>
        load_favorites(disk) = [ok |-> TRUE, entries |-> SavedForm(app.favorites),
                                err |-> None]

\* C19: once the limiter exists, the slots taken are exactly those of the tasks
\* whose lookup is in flight, one each: no lookup runs without a slot (the
\* limiter never hands out more than it has), a task that has finished holds
\* none whatever its lookup returned, and when the function has returned all 8
\* are free.
C19_SlotHeldDuringLookup ==
    server =>
        /\ permits >= 0
        /\ permits + Cardinality(InFlight) = PermitCount
        /\ fn_pc = "returned" => permits = PermitCount

\* returned after lookups that found a station, found none and failed: all
\* slots are free
C19_Witness ==
    /\ fn_pc = "returned"
    /\ server
    /\ permits = PermitCount
    /\ \E t1, t2, t3 \in Tasks :
          /\ lookup[t1] = "found"
          /\ lookup[t2] = "absent"
          /\ lookup[t3] = "error"

\* C20: a step in which a background task ends leaves App as it is and puts
\* one message in the channel; a step that changes App is a step of the event
\* loop for one event: the startup, the receipt of the one message at the head
\* of the channel, or one key press in Normal mode.
C20_OnlyTheLoopWritesApp ==
    [][/\ Len(searches') < Len(searches) \/ Len(fav_loads') < Len(fav_loads) =>
             /\ app' = app
             /\ loop_pc' = loop_pc
             /\ Len(channel') = Len(channel) + 1
             /\ SubSeq(channel', 1, Len(channel)) = channel
       /\ app' # app =>
             \/ loop_pc = "start" /\ channel' = channel
             \/ loop_pc = "drain" /\ channel # <<>> /\ channel' = Tail(channel)
             \/ loop_pc = "poll" /\ app.mode = "Normal" /\ channel' = channel]_vars

\* the search task has ended and its message waits in the channel: App still
\* shows the search as loading and has no station
C20_Witness ==
    /\ searches = <<>>
    /\ channel # <<>>
    /\ Head(channel).kind = "StationsLoaded"
    /\ app.loading
    /\ app.stations = <<>>
    /\ loop_pc = "drain"

\* C21: a search task ends by sending one StationsLoaded or one LoadError, a
\* favorites task by sending one FavoritesLoaded, and nothing else is put in
\* the channel, which the loop empties from its head.  While the loop runs,
\* again and again no task or message is outstanding, or again and again the
\* loop takes the message at the head out and applies it: no task stays
\* without its message and no message stays in the channel.
C21_OneMessagePerTask ==
    /\ [][/\ Len(searches') < Len(searches) =>
                /\ Len(searches') = Len(searches) - 1
                /\ Len(channel') = Len(channel) + 1
                /\ channel'[Len(channel')].kind \in {"StationsLoaded", "LoadError"}
          /\ Len(fav_loads') < Len(fav_loads) =>
                /\ Len(fav_loads') = Len(fav_loads) - 1
                /\ Len(channel') = Len(channel) + 1
                /\ channel'[Len(channel')].kind = "FavoritesLoaded"
          /\ Len(channel') > Len(channel) =>
                Len(searches') + Len(fav_loads') = Len(searches) + Len(fav_loads) - 1
          /\ Len(channel') < Len(channel) =>
                /\ loop_pc = "drain"
                /\ channel' = Tail(channel)
                /\ last'.ev = Head(channel).kind \/ Head(channel).kind = "LoadError"]_vars
    /\ \/ []<>(Outstanding = 0 \/ loop_pc = "exited")
       \/ []<><<channel # <<>> /\ channel' = Tail(channel)>>_vars

\* the favorites task has sent and its FavoritesLoaded has been applied
C21_Witness ==
    /\ last.ev = "FavoritesLoaded"
    /\ Outstanding = 0
    /\ ~app.favorites_loading
    /\ app.favorite_stations # <<>>

\* C22: a search that is started cancels none (the tasks and messages that are
\* outstanding stay); the loop takes the StationsLoaded at the head of the
\* channel, in the order of arrival, and applies it by set_stations whatever
\* params it was asked for with: the stations are replaced, loading is
\* cleared, and total_pages is computed from the page and limit App has now.
C22_StaleCompletionApplied ==
    [][/\ Len(searches') > Len(searches) =>
             /\ SubSeq(searches', 1, Len(searches)) = searches
             /\ channel' = channel
       /\ channel # <<>> /\ Len(channel') < Len(channel)
             /\ Head(channel).kind = "StationsLoaded" =>
             /\ channel' = Tail(channel)
             /\ app'.stations \in SearchPages
             /\ app' = set_stations(app, app'.stations)
             /\ app'.total_pages = IF Len(app'.stations) = app.params.limit
                                      THEN app.page + 1 ELSE app.page]_vars

\* page 2 was asked for, the filter was committed before the answer came (page
\* 1 again, a second search in flight), and the answer to the older request has
\* been applied against page 1: a short page, total_pages is 1 now
C22_Witness ==
    /\ last.ev = "StationsLoaded"
    /\ last.stale
    /\ Outstanding >= 1
    /\ app.page = 1
    /\ last.total_pages = 2
    /\ app.total_pages = 1
    /\ Len(app.stations) = MaxShort

\* C23: the loop has a step of its own to take in every state before the key
\* q, whatever tasks are running: at the drain a message to apply or the frame
\* to draw, at the poll the return after the tick; so the frame is drawn and
\* the terminal polled again and again, also when a task never ends.
C23_LoopNeverWaitsForTasks ==
    /\ [](loop_pc # "exited" => ENABLED LoopStep)
    /\ \/ <>(loop_pc = "exited")
       \/ []<><<loop_pc = "drain" /\ loop_pc' = "poll">>_vars

\* the loop is at the poll, the favorites are shown as loading and the task has
\* not answered
C23_Witness ==
    /\ loop_pc = "poll"
    /\ fav_loads # <<>>
    /\ app.favorites_loading
    /\ app.view_mode = "Favorites"
    /\ last.ev = "other"

\* the message of set_favorites_error, with the number of identifiers failed
FavoritesErrorSlots ==
    {Some([msg |-> "Some favorites could not be refreshed from API", n |-> n]) :
        n \in 1..(MaxIds + 1)}

\* C24: a step of the loop that calls set_error (LoadError, a favorites file
\* not written) puts the message in error, clears loading and leaves
\* favorites_loading as it was; a step that calls set_favorites_error puts the
\* message in favorites_error and in error, clears favorites_loading and
\* leaves loading as it was.
C24_ErrorClearsOwnLoadingFlag ==
    [][/\ loop_pc # "start" /\ app'.error # None /\ app'.error \notin FavoritesErrorSlots
             /\ (app'.error # app.error \/ Len(channel') < Len(channel)) =>
             /\ app' = set_error(app', app'.error[1])
             /\ ~app'.loading
             /\ app'.favorites_loading = app.favorites_loading
       /\ app'.favorites_error # None
             /\ (app'.favorites_error # app.favorites_error
                    \/ Len(channel') < Len(channel)) =>
             /\ app'.favorites_error \in FavoritesErrorSlots
             /\ app'.error = app'.favorites_error
             /\ ~app'.favorites_loading
             /\ app'.loading = app.loading]_vars

\* C25: next_page changes nothing outside the AllStations view and at
\* page = total_pages, prev_page nothing outside the view and at page 1;
\* otherwise the page goes up or down by one, params.offset is (page - 1) *
\* limit for the new page, loading is set and every other field is as before.
C25_PagingFrame ==
    LET b == last.before
        turned(page) == [b EXCEPT !.page = page,
                                  !.params.offset = (page - 1) * b.params.limit,
                                  !.loading = TRUE]
    IN  /\ last.ev = "next_page" =>
              IF b.view_mode # "AllStations" \/ b.page = b.total_pages
                  THEN app = b
                  ELSE app = turned(b.page + 1)
        /\ last.ev = "prev_page" =>
              IF b.view_mode # "AllStations" \/ b.page = 1
                  THEN app = b
                  ELSE app = turned(b.page - 1)

\* the two-page scenario: at page 2 of 2 with the short page shown, prev_page
\* has gone back to page 1, offset 0, loading, the stations and total_pages kept
C25_Witness ==
    /\ last.ev = "prev_page"
    /\ last.before.page = 2
    /\ last.before.total_pages = 2
    /\ ~last.before.loading
    /\ app.page = 1
    /\ app.params.offset = 0
    /\ app.loading
    /\ app.total_pages = 2
    /\ Len(app.stations) = MaxShort

\* C26: in every state params.offset is (page - 1) * params.limit.
C26_OffsetFollowsPage ==
    app.params.offset = (app.page - 1) * app.params.limit

\* the filter was committed at page 2 while the search for page 2 was still
\* out: page 1 and offset 0 again, the older request with the offset of page 2
C26_Witness ==
    /\ app.page = 1
    /\ app.params.offset = 0
    /\ app.loading
    /\ app.params.name = <<97>>
    /\ Len(searches) = 2
    /\ searches[1].params.offset = DefaultLimit
    /\ searches[2].params = app.params

\* C27: when a full page is applied after a full page, with pages turned
\* forward only in between, total_pages is not less than before; when a short
\* page is applied total_pages is the current page, and from then on, until a
\* page is turned back, the filter committed or a full page applied, next_page
\* changes nothing.
C27_TotalPagesWhilePagingForward ==
    /\ last.ev = "StationsLoaded" /\ last.since = "full" /\ last.prev = "full" =>
          app.total_pages >= last.total_pages
    /\ last.ev = "StationsLoaded" /\ last.since = "short" =>
          app.total_pages = app.page
    /\ last.since = "short" => next_page(app) = app

\* a full page 1, n, a full page 2: total_pages went from 2 to 3
C27_Witness ==
    /\ last.ev = "StationsLoaded"
    /\ last.since = "full"
    /\ last.prev = "full"
    /\ app.page = 2
    /\ last.total_pages = 2
    /\ app.total_pages = 3

\* C28: the volume is a multiple of 5 within 0..100, volume_up at 100 and
\* volume_down at 0 change nothing, app.volume is the volume of the Player,
\* and the volume given to cvlc, volume * 256 / 100, is within 0..256.
C28_VolumeInRange ==
    /\ player.volume \in 0..100
    /\ player.volume % 5 = 0
    /\ player.volume = 100 => volume_up(player) = player
    /\ player.volume = 0 => volume_down(player) = player
    /\ app.volume = player.volume
    /\ vlc_volume(player) \in 0..256
    /\ player.process # None => player.process[1].volume \in 0..256

\* the volume turned up to 100 while a station plays: cvlc was given 256
C28_Witness ==
    /\ player.volume = 100
    /\ app.volume = 100
    /\ player.process # None
    /\ player.process[1].volume = 256

\* C29: in every state 1 <= page <= total_pages.
C29_PageWithinTotalPages ==
    /\ 1 <= app.page
    /\ app.page <= app.total_pages

\* page 2 of 3 was shown, the user went back and committed a filter, and the
\* completion of the search for the old params brought a short page
C29_Witness ==
    /\ last.ev = "StationsLoaded"
    /\ last.stale
    /\ last.since = "short"
    /\ last.total_pages = 3
    /\ app.page = 1
    /\ app.total_pages = 1
    /\ app.params.name # <<>>

\* the searches not yet applied: the tasks of trigger_load still running and
\* their messages still in the channel
SearchesPending ==
    Len(searches)
    + Cardinality({i \in 1..Len(channel) : channel[i].kind \in {"StationsLoaded", "LoadError"}})

C31_PagingKeysSpawnOnlyOnPageChange ==
    /\ [](Len(searches) > 0 => app.loading)
    /\ [][(KeyN \/ KeyP) /\ app.loading =>
            /\ app'.page = app.page
            /\ app'.params.offset = app.params.offset
            /\ searches' = searches]_vars
    /\ [][(KeyN \/ KeyP) /\ Len(searches') > Len(searches) =>
            app'.page # app.page]_vars

\* C32: every station of favorite_stations is a favorite: its identifier is
\* in favorite_ids.
C32_FavoriteStationsAreFavorites ==
    \A i \in 1..Len(app.favorite_stations) :
        app.favorite_stations[i].stationuuid \in app.favorite_ids

\* C33: the now-playing station is set if and only if the Player holds a
\* process.
C33_NowPlayingIffProcess ==
    (app.current_station # None) <=> (player.process # None)

\* C34: whenever favorites_error holds a message, error holds the same
\* message.
C34_FavoritesErrorIsShown ==
    app.favorites_error # None => app.error = app.favorites_error
====
